---------------------------- MODULE Spec2Model ----------------------------
(***************************************************************************)
(* Model of the varint crate (src/src/lib.rs): the LEB128-style codec      *)
(* encode/decode over a u128 accumulator, the zigzag transform of the      *)
(* signed implementations and the six typed to_varint/from_varint entry    *)
(* points.                                                                 *)
(*                                                                         *)
(* TLC's integers are 32 bits wide, so a 128-bit word is modelled by the   *)
(* set of its set bit positions (a subset of 0..127): OR is union, XOR is  *)
(* the symmetric difference, a shift moves the positions.  A byte (u8) is  *)
(* an integer in 0..255.  A value of a typed entry point is the bit        *)
(* pattern of that type (a subset of 0..w-1, two's complement if signed).  *)
(***************************************************************************)
EXTENDS Integers, Sequences, FiniteSets

VARIABLES
    overflow_checks,  \* build profile: TRUE = debug (shift overflow panics)
    ety,              \* entry point that produced data: a type, "u128" (encode) or "external"
    val,              \* the value given to to_varint / encode (bit pattern)
    data,             \* the byte sequence handed to from_varint / decode
    dty,              \* entry point used to decode: a type, "u128" (decode) or "none"
    result,           \* outcome of the last from_varint / decode call
    first,            \* outcome of the call made before the window was extended
    prefix,           \* the byte window before it was extended
    pc                \* position of the caller: start, encoded, decoded, extended, redecoded

vars == <<overflow_checks, ety, val, data, dty, result, first, prefix, pc>>

-----------------------------------------------------------------------------
(* Bounds of the model *)

\* longest byte sequence whose bytes all carry the continuation bit
MaxRun == 20
\* longest short external byte sequence (all sequences over RawAlphabet)
MaxRawLen == 2
\* longest sequence of extra bytes appended after a decoded window
MaxExtra == 1

-----------------------------------------------------------------------------
(* 128-bit words as sets of bit positions *)

\* width of the accumulator types u128 / i128
AccBits == 128

Word == 0 .. (AccBits - 1)

Ones(k) == 0 .. (k - 1)

Pow2(k) == 2 ^ k

\* the word holding the small non-negative literal n (n < 2^31)
Lit(n) == {i \in 0 .. 30 : (n \div Pow2(i)) % 2 = 1}

\* the w-bit two's complement pattern of -n, for a small literal n >= 1
NegLit(n, w) == Ones(w) \ Lit(n - 1)

MaxOf(S) == CHOOSE m \in S : \A x \in S : x <= m

MinOf(S) == CHOOSE m \in S : \A x \in S : m <= x

\* x << k on a 128-bit word, k < 128: bits shifted past bit 127 are lost
Shl(x, k) == {b + k : b \in x} \cap Word

\* x >> k on u128 (logical)
Shr(x, k) == {b - k : b \in {c \in x : c >= k}}

\* x >> k on i128 (arithmetic: the sign bit 127 is propagated)
Sar(x, k) ==
    Shr(x, k) \cup (IF (AccBits - 1) \in x THEN (AccBits - k) .. (AccBits - 1) ELSE {})

Xor(a, b) == (a \ b) \cup (b \ a)

\* -x on i128 (two's complement, wrapping)
Neg(x) ==
    IF x = {} THEN {}
    ELSE LET l == MinOf(x) IN {l} \cup {i \in (l + 1) .. (AccBits - 1) : i \notin x}

\* unsigned order on words: a <= b
Leq(a, b) == a = b \/ MaxOf(Xor(a, b)) \in b

-----------------------------------------------------------------------------
(* Bytes *)

RECURSIVE ByteSum(_, _)
ByteSum(x, i) ==
    IF i > 7 THEN 0 ELSE (IF i \in x THEN Pow2(i) ELSE 0) + ByteSum(x, i + 1)

\* `value as u8`: the low 8 bits of the word
AsU8(x) == ByteSum(x, 0)

\* `b as u128`: zero-extension of a byte
ByteAsU128(b) == {i \in 0 .. 7 : (b \div Pow2(i)) % 2 = 1}

\* b & 127
And127(b) == b % 128

\* b | 0x80
Or80(b) == IF (b \div 128) % 2 = 1 THEN b ELSE b + 128

\* (b & 0x80) != 0x80
MsbClear(b) == (b \div 128) % 2 # 1

-----------------------------------------------------------------------------
(* The supported types (impl_varint_unsigned! / impl_varint_signed!) *)

Unsigned == {"u16", "u32", "u64"}

SignedTypes == {"i16", "i32", "i64"}

Types == Unsigned \cup SignedTypes

Bits(T) ==
    CASE T \in {"u16", "i16"} -> 16
      [] T \in {"u32", "i32"} -> 32
      [] T \in {"u64", "i64"} -> 64

\* `*self as u128` for an unsigned type: zero-extension
WidenUnsigned(T, x) == x

\* `*self as i128` for a signed type: sign-extension from bit w-1
WidenSigned(T, x) ==
    IF (Bits(T) - 1) \in x THEN x \cup (Bits(T) .. (AccBits - 1)) ELSE x

\* mutant: a saturating conversion instead of a truncating one
Narrow_saturating(T, x) == IF x \subseteq Ones(Bits(T)) THEN x ELSE Ones(Bits(T))

\* `... as Self`: truncation to the low w bits
Narrow(T, x) == x \cap Ones(Bits(T))

-----------------------------------------------------------------------------
(* The unsigned codec: pub fn encode / pub fn decode *)

\* mutant: `value > 128`
Above128(value) == (\E b \in value : b >= 8) \/ (7 \in value /\ value # {7})

\* mutant: `value > 63`
Above63(value) == \E b \in value : b >= 6

\* value > 127
Above127(value) == \E b \in value : b >= 7

\* the body of `while value > 127 { push; value >>= 7 }` followed by the last push
RECURSIVE encode_loop(_, _)
encode_loop(value, output) ==
    IF Above127(value)
    THEN encode_loop(Shr(value, 7), Append(output, Or80(And127(AsU8(value)))))
    ELSE Append(output, And127(AsU8(value)))

\* mutant: `value >>= 8` in the loop
RECURSIVE encode_loop_shift8(_, _)
encode_loop_shift8(value, output) ==
    IF Above127(value)
    THEN encode_loop_shift8(Shr(value, 8), Append(output, Or80(And127(AsU8(value)))))
    ELSE Append(output, And127(AsU8(value)))

encode_shift8(value) == encode_loop_shift8(value, <<>>)

encode(value) == encode_loop(value, <<>>)

\* `x << (7 * i)` on u128: with overflow checks a shift amount >= 128 panics,
\* without them the amount is masked to its low 7 bits (wrapping_shl)
ShiftPanics(amount) == overflow_checks /\ amount >= AccBits

ShlBuild(x, amount) == Shl(x, amount % AccBits)

\* the `for (i, b) in data.iter().enumerate()` loop, from index i (0-based);
\* consumed counts the bytes the loop has read
RECURSIVE decode_loop(_, _, _)
decode_loop(data_, i, output) ==
    IF i >= Len(data_)
    THEN [panicked |-> FALSE, output |-> output, consumed |-> i]
    ELSE LET b == data_[i + 1] IN
         IF ShiftPanics(7 * i)
         THEN [panicked |-> TRUE, output |-> {}, consumed |-> i + 1]
         ELSE LET out2 == output \cup ShlBuild(ByteAsU128(And127(b)), 7 * i) IN
              IF MsbClear(b)
              THEN [panicked |-> FALSE, output |-> out2, consumed |-> i + 1]
              ELSE decode_loop(data_, i + 1, out2)

\* mutant: the loop without its `break`
RECURSIVE decode_loop_no_break(_, _, _)
decode_loop_no_break(data_, i, output) ==
    IF i >= Len(data_)
    THEN [panicked |-> FALSE, output |-> output, consumed |-> i]
    ELSE IF ShiftPanics(7 * i)
         THEN [panicked |-> TRUE, output |-> {}, consumed |-> i + 1]
         ELSE decode_loop_no_break(data_, i + 1,
                  output \cup ShlBuild(ByteAsU128(And127(data_[i + 1])), 7 * i))

decode_no_break(data_) == decode_loop_no_break(data_, 0, {})

decode(data_) == decode_loop(data_, 0, {})

-----------------------------------------------------------------------------
(* The typed entry points *)

\* impl_varint_unsigned!: encode(*self as u128)
to_varint_unsigned(T, self) == encode(WidenUnsigned(T, self))

\* impl_varint_unsigned!: decode(data) as Self
from_varint_unsigned(T, data_) ==
    LET d == decode(data_) IN
    [panicked |-> d.panicked, value |-> Narrow(T, d.output), consumed |-> d.consumed]

\* mutant: the sign term is dropped
zigzag_no_sign(value) == Shl(value, 1)

\* mutant: the right shift is logical (done on u128)
zigzag_logical(value) == Xor(Shl(value, 1), Shr(value, 63))

\* (value << 1) ^ (value >> 63) on i128
zigzag(value) == Xor(Shl(value, 1), Sar(value, 63))

\* mutant: the low bit is not negated
unzigzag_no_neg(value) == Xor(Sar(value, 1), value \cap {0})

\* (value >> 1) ^ (-(value & 1)) on i128
unzigzag(value) == Xor(Sar(value, 1), Neg(value \cap {0}))

\* impl_varint_signed!: encode(zigzag(*self as i128) as u128)
to_varint_signed(T, self) == encode(zigzag(WidenSigned(T, self)))

\* impl_varint_signed!: unzigzag(decode(data) as i128) as Self
from_varint_signed(T, data_) ==
    LET d == decode(data_) IN
    [panicked |-> d.panicked, value |-> Narrow(T, unzigzag(d.output)),
     consumed |-> d.consumed]

to_varint(T, self) ==
    IF T \in SignedTypes THEN to_varint_signed(T, self) ELSE to_varint_unsigned(T, self)

from_varint(T, data_) ==
    IF T \in SignedTypes THEN from_varint_signed(T, data_) ELSE from_varint_unsigned(T, data_)

\* a direct call of pub fn decode, in the shape of a typed outcome
decode_call(data_) ==
    LET d == decode(data_) IN
    [panicked |-> d.panicked, value |-> d.output, consumed |-> d.consumed]

-----------------------------------------------------------------------------
(* Inputs *)

SmallLits == {0, 1, 2, 3, 4, 63, 64, 127, 128, 300, 599, 8191, 8192, 16383, 16384}

SmallNegs == {1, 2, 3, 64, 65, 300, 8192, 8193}

\* values of an unsigned type of width w: small literals, 0xCAFE, and the
\* values around the top of the range
UnsignedValues(w) ==
    {Lit(n) : n \in SmallLits} \cup {Lit(51966), Lit(65535)}
        \cup {Ones(w), Ones(w - 1), {w - 1}, {w - 1, 0}, Ones(w) \ {0}}

\* bit patterns of a signed type of width w: small literals of both signs,
\* the minimum, the maximum and their neighbours
SignedValues(w) ==
    {Lit(n) : n \in SmallLits} \cup {NegLit(n, w) : n \in SmallNegs}
        \cup {Ones(w - 1), Ones(w - 1) \ {0}, {w - 1}, {w - 1, 0}, Ones(w)}

\* arguments of a direct encode call: the values on both sides of every power
\* of 128, the top of u64 and of u128, and 65536 + x for the u16 values x
U128Values ==
    {Lit(n) : n \in SmallLits} \cup {Lit(51966)}
        \cup {Ones(7 * k) : k \in 1 .. 18} \cup {{7 * k} : k \in 1 .. 18}
        \cup {Ones(64), {64}, Ones(AccBits), {AccBits - 1}}
        \cup {x \cup {16} : x \in UnsignedValues(16)}

Values(T) ==
    IF T = "u128" THEN U128Values
    ELSE IF T \in SignedTypes THEN SignedValues(Bits(T)) ELSE UnsignedValues(Bits(T))

RECURSIVE SeqsUpTo(_, _)
SeqsUpTo(S, n) ==
    IF n = 0 THEN {<<>>}
    ELSE LET shorter == SeqsUpTo(S, n - 1) IN
         shorter \cup {Append(s, b) : s \in shorter, b \in S}

RECURSIVE Run(_, _)
Run(b, n) == IF n = 0 THEN <<>> ELSE Append(Run(b, n - 1), b)

RawAlphabet == {0, 1, 127, 128, 172, 255}

\* byte sequences supplied from outside: every short sequence, and long runs of
\* continuation bytes with and without a terminator
RawInputs ==
    SeqsUpTo(RawAlphabet, MaxRawLen)
        \cup {Run(c, n) \o t : c \in {128, 255}, n \in 17 .. MaxRun,
                               t \in {<<>>, <<1>>, <<255>>, <<1, 255>>}}

ExtraAlphabet == {0, 129, 255}

Extras == SeqsUpTo(ExtraAlphabet, MaxExtra)

NoResult == [panicked |-> FALSE, value |-> {}, consumed |-> 0]

-----------------------------------------------------------------------------
(* The caller: encode a value (or receive bytes), decode the window, then      *)
(* decode the same window again with extra bytes behind it.                    *)

Init ==
    /\ overflow_checks \in BOOLEAN
    /\ \/ /\ ety \in Types \cup {"u128"}
          /\ val \in Values(ety)
          /\ data = <<>>
          /\ pc = "start"
       \/ /\ ety = "external"
          /\ val = {}
          /\ data \in RawInputs
          /\ pc = "encoded"
    /\ dty = "none"
    /\ result = NoResult
    /\ first = NoResult
    /\ prefix = <<>>

\* x.to_varint() for one of the six types
ToVarint ==
    /\ pc = "start"
    /\ ety \in Types
    /\ data' = to_varint(ety, val)
    /\ pc' = "encoded"
    /\ UNCHANGED <<overflow_checks, ety, val, dty, result, first, prefix>>

\* encode(value)
Encode ==
    /\ pc = "start"
    /\ ety = "u128"
    /\ data' = encode(val)
    /\ pc' = "encoded"
    /\ UNCHANGED <<overflow_checks, ety, val, dty, result, first, prefix>>

\* T::from_varint(&data); the second call uses the type of the first
FromVarint ==
    /\ pc \in {"encoded", "extended"}
    /\ \E T \in Types :
          /\ pc = "extended" => T = dty
          /\ dty' = T
          /\ result' = from_varint(T, data)
    /\ pc' = IF pc = "encoded" THEN "decoded" ELSE "redecoded"
    /\ UNCHANGED <<overflow_checks, ety, val, data, first, prefix>>

\* decode(&data)
Decode ==
    /\ pc \in {"encoded", "extended"}
    /\ pc = "extended" => dty = "u128"
    /\ dty' = "u128"
    /\ result' = decode_call(data)
    /\ pc' = IF pc = "encoded" THEN "decoded" ELSE "redecoded"
    /\ UNCHANGED <<overflow_checks, ety, val, data, first, prefix>>

\* the caller passes a wider window: the same bytes followed by extra ones
Extend ==
    /\ pc = "decoded"
    /\ \E extra \in Extras : data' = data \o extra
    /\ prefix' = data
    /\ first' = result
    /\ pc' = "extended"
    /\ UNCHANGED <<overflow_checks, ety, val, dty, result>>

Next == ToVarint \/ Encode \/ FromVarint \/ Decode \/ Extend

Spec == Init /\ [][Next]_vars

-----------------------------------------------------------------------------
(* Vocabulary of the properties *)

\* the value of a signed type is negative
IsNegative(T, x) == (Bits(T) - 1) \in x

\* some byte of the sequence has the continuation bit clear
HasTerminator(s) == \E k \in 1 .. Len(s) : s[k] < 128

\* the index of the first byte with the continuation bit clear
FirstTerminator(s) == MinOf({k \in 1 .. Len(s) : s[k] < 128})

\* the smallest n >= 1 with v < 128^n
NumDigits(v) == MinOf({n \in 1 .. 19 : v \subseteq Ones(7 * n)})

\* (v >> 7k) & 0x7F as a number
Digit(v, k) == AsU8({b - 7 * k : b \in {c \in v : c >= 7 * k /\ c < 7 * k + 7}})

\* the little-endian base-128 digits of v, continuation bit on all but the last
Base128(v) ==
    [k \in 1 .. NumDigits(v) |->
        IF k < NumDigits(v) THEN Digit(v, k - 1) + 128 ELSE Digit(v, k - 1)]

\* 2v for v >= 0 and -2v - 1 (the complement of 2v) for v < 0, in 128 bits
ZigZagImage(T, x) ==
    LET wide == IF IsNegative(T, x) THEN x \cup (Bits(T) .. 127) ELSE x
        twice == {b + 1 : b \in wide} \cap (0 .. 127)
    IN  IF IsNegative(T, x) THEN (0 .. 127) \ twice ELSE twice

\* (v << 1) XOR (v >> (a - 1)) with a = 128
ZigZagByWidth(T, x) ==
    LET wide == IF IsNegative(T, x) THEN x \cup (Bits(T) .. 127) ELSE x
    IN  Xor(Shl(wide, 1), Sar(wide, 127))

\* z / 2 for even z and -(z + 1) / 2 (the complement of z >> 1) for odd z
ZigZagInverse(z) ==
    LET half == {b - 1 : b \in z \ {0}} IN
    IF 0 \in z THEN (0 .. 127) \ half ELSE half

\* the unsigned value handed to encode by the entry point that produced data
Magnitude == IF ety \in SignedTypes THEN ZigZagImage(ety, val) ELSE val

\* OR over all indices i of (byte_i & 0x7F) << 7i, in 128 bits
PartialOr(s) ==
    UNION {{b + 7 * (k - 1) : b \in ByteAsU128(s[k] % 128)} \cap (0 .. 127) : k \in 1 .. Len(s)}

SizeLimit(T) ==
    CASE Bits(T) = 16 -> 3
      [] Bits(T) = 32 -> 5
      [] Bits(T) = 64 -> 10

-----------------------------------------------------------------------------
(* Properties *)

\* C1: round trip: for each of the six types T and every value x of T,
\* T::from_varint(x.to_varint()) returns x.
RoundTrip ==
    (pc = "decoded" /\ ety \in Types /\ dty = ety)
        => (~result.panicked /\ result.value = val)

RoundTripWitness ==
    /\ pc = "decoded" /\ ety = "i64" /\ dty = "i64"
    /\ val = {63}
    /\ result.value = {63}

\* C2: decode returns a value for every input byte sequence: no call of
\* from_varint or decode ends in a failure.
DecodeNeverFails ==
    pc \in {"decoded", "redecoded"} => ~result.panicked

\* C3: encode(v) is the little-endian base-128 digit sequence of v with the
\* continuation bit set on every byte but the last, of length the smallest
\* n >= 1 with v < 128^n; 0xCAFE gives [0xFE, 0x95, 0x03] and 300 gives [0xAC, 0x02].
EncodeFormat ==
    (pc = "encoded" /\ ety \in Unsigned \cup {"u128"})
        => /\ data = Base128(val)
           /\ val = Lit(51966) => data = <<254, 149, 3>>
           /\ val = Lit(300) => data = <<172, 2>>

EncodeFormatWitness ==
    /\ pc = "encoded" /\ ety = "u16"
    /\ val = Lit(51966)
    /\ data = <<254, 149, 3>>

\* C4: for every signed value v, v.to_varint() is encode(z) for the zigzag
\* image z of v: z = (v << 1) XOR (v >> (a-1)), which is 2v for v >= 0 and
\* -2v - 1 for v < 0 and lies below 2^(w+1); 0, -1, 1, -2, 2 map to 0, 1, 2,
\* 3, 4 and -300 encodes like unsigned 599, to [215, 4].
ZigZagForward ==
    (pc = "encoded" /\ ety \in SignedTypes)
        => /\ data = Base128(ZigZagImage(ety, val))
           /\ ZigZagImage(ety, val) = ZigZagByWidth(ety, val)
           /\ ZigZagImage(ety, val) \subseteq Ones(Bits(ety) + 1)
           /\ val = {} => data = <<0>>
           /\ val = NegLit(1, Bits(ety)) => data = <<1>>
           /\ val = Lit(1) => data = <<2>>
           /\ val = NegLit(2, Bits(ety)) => data = <<3>>
           /\ val = Lit(2) => data = <<4>>
           /\ val = NegLit(300, Bits(ety))
                 => (data = <<215, 4>> /\ data = to_varint("u16", Lit(599)))

ZigZagForwardWitness ==
    /\ pc = "encoded" /\ ety = "i16"
    /\ val = NegLit(300, 16)
    /\ data = <<215, 4>>

\* C5 as stated: for each of the six types, to_varint(0) is [0x00] and every
\* value x with 0 <= x < 128 encodes to exactly one byte.
SmallValuesOneByte ==
    (pc = "encoded" /\ ety \in Types)
        => /\ val = {} => data = <<0>>
           /\ val \subseteq Ones(7) => Len(data) = 1

\* C5 as amended: to_varint(0) is [0x00] for all six types; an unsigned x with
\* 0 <= x < 128 and a signed x with 0 <= x < 64 encode to exactly one byte
\* (a signed x with 64 <= x < 128 has a zigzag image >= 128 and takes two).
SmallValuesOneByteAmended ==
    (pc = "encoded" /\ ety \in Types)
        => /\ val = {} => data = <<0>>
           /\ (ety \in Unsigned /\ val \subseteq Ones(7)) => Len(data) = 1
           /\ (ety \in SignedTypes /\ val \subseteq Ones(6)) => Len(data) = 1
           /\ (ety \in SignedTypes /\ val \subseteq Ones(7) /\ 6 \in val) => Len(data) = 2

SmallValuesWitness ==
    /\ pc = "encoded" /\ ety = "i32"
    /\ val = Lit(64)
    /\ Len(data) = 2

\* C6: once decode has consumed the first byte whose continuation bit is clear
\* it stops: for a byte sequence b holding such a byte and any extra bytes,
\* decode(b ++ extra) = decode(b), and likewise for every typed from_varint
\* (the two calls have the same outcome, and a call that returns has consumed
\* the bytes up to the first terminator and no more).
TrailingBytesIgnored ==
    (pc = "redecoded" /\ HasTerminator(prefix))
        => /\ result = first
           /\ ~result.panicked => result.consumed = FirstTerminator(prefix)

TrailingBytesWitness ==
    /\ pc = "redecoded" /\ HasTerminator(prefix)
    /\ Len(data) > Len(prefix)
    /\ data[Len(data)] = 255
    /\ ~result.panicked
    /\ result.value = Lit(300)

\* C7: decode([]) is 0, and for a byte sequence whose bytes all have the
\* continuation bit set decode returns the OR over all indices i of
\* (byte_i & 0x7F) << 7i instead of an error; decode([0x80]) is 0.
ShortInputTolerated ==
    (pc \in {"decoded", "redecoded"} /\ dty = "u128" /\ ~HasTerminator(data))
        => (~result.panicked /\ result.value = PartialOr(data))

\* C8: narrowing never checks the range: an unsigned T::from_varint(bytes) is
\* decode(bytes) reduced to its low w bits, a signed one is the inverse zigzag
\* of decode(bytes) reduced to its low w bits; u16::from_varint(encode(65536 + x))
\* is x for every x of u16.
SilentNarrowing ==
    (pc \in {"decoded", "redecoded"} /\ dty \in Types)
        => LET d == decode(data) IN
           /\ result.panicked = d.panicked
           /\ (~d.panicked /\ dty \in Unsigned)
                 => result.value = d.output \cap Ones(Bits(dty))
           /\ (~d.panicked /\ dty \in SignedTypes)
                 => result.value = ZigZagInverse(d.output) \cap Ones(Bits(dty))
           /\ (pc = "decoded" /\ ety = "u128" /\ dty = "u16" /\ val \subseteq Ones(17)
                 /\ 16 \in val)
                 => (~result.panicked /\ result.value = val \ {16})

SilentNarrowingWitness ==
    /\ pc = "decoded" /\ ety = "u128" /\ dty = "u16"
    /\ val = Lit(300) \cup {16}
    /\ result.value = Lit(300)

\* C9: encode never returns an empty sequence, its length is non-decreasing in
\* the unsigned (zigzag-mapped) value, and the length is k exactly for the
\* values from 128^(k-1) (0 for k = 1) to 128^k - 1.
LengthMonotonic ==
    (pc = "encoded" /\ ety # "external")
        => /\ Len(data) >= 1
           /\ \A k \in 1 .. 19 :
                 Len(data) = k <=>
                    (Magnitude \subseteq Ones(7 * k)
                        /\ (k > 1 => ~(Magnitude \subseteq Ones(7 * (k - 1)))))
           /\ \A u \in U128Values :
                 /\ Leq(u, Magnitude) => Len(encode(u)) <= Len(data)
                 /\ Leq(Magnitude, u) => Len(data) <= Len(encode(u))

LengthMonotonicWitness ==
    /\ pc = "encoded" /\ ety = "u128"
    /\ val = {7 * 18}
    /\ Len(data) = 19

\* C10: to_varint returns at most 3 bytes for u16 and i16, 5 for u32 and i32,
\* 10 for u64 and i64 (the zigzag image of a w-bit value is below 2^w), so
\* decoding an output of to_varint never shifts a group by more than 63 bits.
EncodedSizeBounded ==
    /\ (pc = "encoded" /\ ety \in Types)
          => /\ Len(data) <= SizeLimit(ety)
             /\ Magnitude \subseteq Ones(Bits(ety))
    /\ (pc = "decoded" /\ ety \in Types)
          => /\ ~result.panicked
             /\ result.consumed = Len(data)
             /\ 7 * (result.consumed - 1) <= 63

EncodedSizeWitness ==
    /\ pc = "decoded" /\ ety = "i64" /\ dty = "i64"
    /\ val = {63}
    /\ Len(data) = 10
    /\ result.consumed = 10

=============================================================================
